---------------------------- MODULE Spec2Model ----------------------------
(***************************************************************************)
(* A model of self_censoring_recovery_small_example.py: the data generator *)
(* generateData, the two shadow-IPW residual functions, the two            *)
(* predictors and the __main__ driver.                                     *)
(*                                                                         *)
(* Numbers.  A float is modelled as an exact rational extended with the    *)
(* IEEE special values the code can produce: a pair <<n, d>> with d > 0    *)
(* and gcd(n, d) = 1 is the finite value n/d, <<1, 0>> is +inf, <<-1, 0>>  *)
(* is -inf and <<0, 0>> is NaN.  Division by zero, 0.0 ** -1, inf - inf    *)
(* and 0 * inf give what numpy gives (inf or NaN, no exception).  Rounding *)
(* of finite results is not modelled, except for the saturation of expit   *)
(* to exactly 0.0 and 1.0.  The sign of a zero is not modelled.            *)
(*                                                                         *)
(* Log-odds.  The argument of expit in the residual functions and the      *)
(* predictors is an integer n standing for the real number n * ln 2, so    *)
(* that expit(n * ln 2) = 2^n / (2^n + 1) is a rational.                   *)
(***************************************************************************)
EXTENDS Integers, Sequences, FiniteSets, TLC

(***************************************************************************)
(* Bounds of the model.                                                    *)
(***************************************************************************)
\* generateData's size (5000 by default) ranges over 1..MaxSize
MaxSize == 2
\* np.random.seed's argument ranges over 0..MaxSeed and the seed of __main__
MaxSeed == 5
\* the global generator has the states 1..RngModulus-1
RngModulus == 31

Sizes == 1..MaxSize
\* line 114: np.random.seed(10)
SeedOfMain == 10
Seeds == (0..MaxSeed) \cup {SeedOfMain}
RngStates == 1..(RngModulus - 1)

(***************************************************************************)
(* Extended rational arithmetic (numpy float64 semantics, see above).      *)
(***************************************************************************)
Abs(x) == IF x < 0 THEN -x ELSE x
Sgn(x) == IF x < 0 THEN -1 ELSE IF x = 0 THEN 0 ELSE 1

RECURSIVE GCD(_, _)
GCD(a, b) == IF b = 0 THEN a ELSE GCD(b, a % b)

Norm(n, d) ==
    IF d = 0 THEN <<Sgn(n), 0>>
    ELSE LET g == GCD(Abs(n), Abs(d))
         IN  <<(Sgn(d) * n) \div g, Abs(d) \div g>>

Fin(k) == <<k, 1>>
Zero == <<0, 1>>
One == <<1, 1>>
PosInf == <<1, 0>>
NegInf == <<-1, 0>>
NaN == <<0, 0>>

IsFinite(x) == x[2] > 0
IsNaN(x) == x = NaN

\* x * y: 0 * inf is NaN, NaN propagates
Mul(x, y) == Norm(x[1] * y[1], x[2] * y[2])

\* 1 / x: 1/0 is inf, 1/inf is 0
Inv(x) ==
    IF x[2] = 0 THEN (IF x[1] = 0 THEN NaN ELSE Zero)
    ELSE IF x[1] = 0 THEN PosInf
    ELSE <<Sgn(x[1]) * x[2], Abs(x[1])>>

\* x / y: 0/0 and inf/inf are NaN, x/0 is +-inf
Div(x, y) == Mul(x, Inv(y))

Neg(x) == <<-x[1], x[2]>>

\* x + y: inf + (-inf) is NaN
Add(x, y) ==
    IF IsNaN(x) \/ IsNaN(y) THEN NaN
    ELSE IF x[2] = 0 /\ y[2] = 0 THEN (IF x[1] = y[1] THEN x ELSE NaN)
    ELSE IF x[2] = 0 THEN x
    ELSE IF y[2] = 0 THEN y
    ELSE LET l == (x[2] \div GCD(x[2], y[2])) * y[2]
         IN  Norm(x[1] * (l \div x[2]) + y[1] * (l \div y[2]), l)

Sub(x, y) == Add(x, Neg(y))

\* x < y on non-NaN values
Less(x, y) ==
    /\ ~IsNaN(x) /\ ~IsNaN(y) /\ x # y
    /\ IF x[2] = 0 THEN x[1] < 0
       ELSE IF y[2] = 0 THEN y[1] > 0
       ELSE x[1] * y[2] < y[1] * x[2]

RECURSIVE Pow2(_)
Pow2(n) == IF n = 0 THEN 1 ELSE 2 * Pow2(n - 1)

\* scipy.special.expit at n * ln 2.  In float64 expit is exactly 1.0 from
\* about 36.8 (54 ln 2) on and exactly 0.0 below about -745.2 (-1075 ln 2).
Expit(n) ==
    IF n >= 54 THEN One
    ELSE IF n <= -1075 THEN Zero
    ELSE IF n >= 0 THEN <<Pow2(n), Pow2(n) + 1>>
    ELSE <<1, 1 + Pow2(-n)>>

\* g ** a for a float g and an integer a of an int64 column (a value of A
\* or Y: 0, 1 or the sentinel -1): numpy's float power
PowInt(g, a) ==
    IF a = 0 THEN One
    ELSE IF a = 1 THEN g
    ELSE Inv(g)

RECURSIVE SumSeq(_)
SumSeq(s) == IF s = <<>> THEN Zero ELSE Add(Head(s), SumSeq(Tail(s)))

\* np.average of a non-empty float Series
Average(s) == Div(SumSeq(s), Fin(Len(s)))


(***************************************************************************)
(* The process-wide generator behind np.random.  Its state is a number in  *)
(* RngStates; every draw advances it and is a function of the new state.   *)
(***************************************************************************)
\* one step of the generator
RngNext(s) == (3 * s) % RngModulus

RECURSIVE RngAfter(_, _)
\* the state after k draws from state s
RngAfter(s, k) == IF k = 0 THEN s ELSE RngNext(RngAfter(s, k - 1))

\* np.random.seed(seed): the state depends on the seed alone
SeedState(seed) == 1 + ((7 * seed) % (RngModulus - 1))

\* a draw of np.random.normal(0, 1): one of the reals -5, 0, 5
NormalOf(s) == 5 * ((s % 3) - 1)

\* np.random.binomial(1, p) returns 1 with probability p: it compares p
\* with a uniform draw u and returns 1 iff u < p, that is, for p = expit(x),
\* iff logit(u) < x.  A draw is given by logit(u) in tenths.
Logits == <<-200, 0, 10, 200, -40, 50, 15>>
LogitOf(s) == Logits[1 + (s % Len(Logits))]

\* np.random.binomial(1, expit(x)) for x given in tenths
Bernoulli(x10, s) == IF LogitOf(s) < x10 THEN 1 ELSE 0

\* the value that stands for "missing" in A and Y of the partial dataset
Sentinel == -1

\* the masking with the sentinel written where R = 1
MaskFlipped(col, R) == [i \in 1..Len(col) |-> IF R[i] = 1 THEN Sentinel ELSE col[i]]

\* col = full_data[name].copy(); col[full_data[R] == 0] = -1
Mask(col, R) == [i \in 1..Len(col) |-> IF R[i] = 0 THEN Sentinel ELSE col[i]]

\* pd.DataFrame({"A": A, "Y": Y, "W1": W1, "W2": W2, "R_A": R_A, "R_Y": R_Y})
DataFrame(A, Y, W1, W2, R_A, R_Y) ==
    [A |-> A, Y |-> Y, W1 |-> W1, W2 |-> W2, R_A |-> R_A, R_Y |-> R_Y]

\* lines 21-41 of generateData called with the generator in state s: the
\* six arrays, drawn in the order W1, W2, A, Y, R_A, R_Y, each with `size`
\* consecutive draws
RawDraws(size, s) ==
    LET at(k, i) == RngAfter(s, k * size + i)
        W1  == [i \in 1..size |-> NormalOf(at(0, i))]
        W2  == [i \in 1..size |-> NormalOf(at(1, i)) + (14 * W1[i]) \div 10]
        A   == [i \in 1..size |-> Bernoulli(10 * (W1[i] + W2[i]), at(2, i))]
        Y   == [i \in 1..size |-> Bernoulli(10 * (W2[i] + A[i]) - 4, at(3, i))]
        R_A == [i \in 1..size |-> Bernoulli(20 * A[i] + 3, at(4, i))]
        R_Y == [i \in 1..size |-> Bernoulli(20 * Y[i] + 10 * W2[i] + 8, at(5, i))]
    IN  DataFrame(A, Y, W1, W2, R_A, R_Y)

\* generateData without the two .copy() calls: the masking writes through
\* to the columns A and Y of full_data
GenerateDataNoCopy(size, s) ==
    LET raw  == RawDraws(size, s)
        A    == Mask(raw.A, raw.R_A)
        Y    == Mask(raw.Y, raw.R_Y)
    IN  [full    |-> DataFrame(A, Y, raw.W1, raw.W2, raw.R_A, raw.R_Y),
         partial |-> DataFrame(A, Y, raw.W1, raw.W2, raw.R_A, raw.R_Y),
         raw     |-> raw,
         rng     |-> RngAfter(s, 6 * size)]

\* generateData(size) called with the generator in state s: the two
\* datasets returned, the arrays as drawn, and the generator's state
\* afterwards
GenerateData(size, s) ==
    LET raw  == RawDraws(size, s)
        full == raw
        A    == Mask(full.A, full.R_A)
        Y    == Mask(full.Y, full.R_Y)
    IN  [full    |-> full,
         partial |-> DataFrame(A, Y, raw.W1, raw.W2, raw.R_A, raw.R_Y),
         raw     |-> raw,
         rng     |-> RngAfter(s, 6 * size)]

(***************************************************************************)
(* The residual functions and the predictors.  A DataFrame is a function   *)
(* from its column names to its columns; data[c] of a column the frame     *)
(* does not have raises KeyError.  A call returns a record: err, the       *)
(* numeric steps it had computed when it ended, and the value returned.    *)
(***************************************************************************)
NumericSteps == {"sigmoid", "arithmetic", "power", "division", "average"}
KeyError(computed) == [err |-> "KeyError", computed |-> computed, out |-> <<>>]
Returned(out) == [err |-> "none", computed |-> NumericSteps, out |-> out]

\* the number of rows of a frame
NRows(data) == IF DOMAIN data = {} THEN 0
               ELSE Len(data[CHOOSE c \in DOMAIN data : TRUE])

\* lines 95-96: pRA_1, the fitted P(R_A = 1 | A) of every row
pRA_1(params, A, data) ==
    LET pRA_A_0 == Expit(params[1])
    IN  [i \in 1..NRows(data) |->
            Div(pRA_A_0,
                Add(pRA_A_0, Mul(PowInt(Fin(params[2]), data[A][i]),
                                 Sub(One, pRA_A_0))))]

\* shadowIpwFunctional_A(params, W_1, R_A, A, data), params = (alpha_0, gamma)
shadowIpwFunctional_A(params, W_1, R_A, A, data) ==
    IF A \notin DOMAIN data                        \* line 96, after line 95
    THEN KeyError({"sigmoid"})
    ELSE IF W_1 \notin DOMAIN data \/ R_A \notin DOMAIN data     \* line 98
    THEN KeyError({"sigmoid", "power", "arithmetic", "division"})
    ELSE
    LET p1 == pRA_1(params, A, data)
        n  == NRows(data)
        output1 == Average([i \in 1..n |->
                      Sub(Div(Mul(Fin(data[W_1][i]), Fin(data[R_A][i])), p1[i]),
                          Fin(data[W_1][i]))])
        output2 == Average([i \in 1..n |->
                      Sub(Div(Mul(Fin(data[W_1][i] * data[W_1][i]), Fin(data[R_A][i])), p1[i]),
                          Fin(data[W_1][i] * data[W_1][i]))])
    IN  Returned(<<output1, output2>>)

\* rootsPrediction_A that leaves p0 out of the denominator
rootsPrediction_A_NoP0(roots, A, data) ==
    IF A \notin DOMAIN data
    THEN KeyError({"sigmoid"})
    ELSE
    LET pRA_A_0 == Expit(roots[1])
    IN  Returned([i \in 1..NRows(data) |->
            Div(pRA_A_0,
                Mul(PowInt(Fin(roots[2]), data[A][i]), Sub(One, pRA_A_0)))])

\* rootsPrediction_A(roots, A, data), roots = (alpha_0, gamma)
rootsPrediction_A(roots, A, data) ==
    IF A \notin DOMAIN data                        \* line 109, after line 108
    THEN KeyError({"sigmoid"})
    ELSE
    LET pRA_A_0 == Expit(roots[1])
    IN  Returned([i \in 1..NRows(data) |->
            Div(pRA_A_0,
                Add(pRA_A_0, Mul(PowInt(Fin(roots[2]), data[A][i]),
                                 Sub(One, pRA_A_0))))])

\* lines 65-66: pRY_1, the fitted P(R_Y = 1 | Y, W2) of every row
pRY_1(params, W_2, Y, data) ==
    [i \in 1..NRows(data) |->
        LET pRY_Y_0 == Expit(params[1] + params[2] * data[W_2][i])
        IN  Div(pRY_Y_0,
                Add(pRY_Y_0,
                    Mul(PowInt(Fin(params[3] + params[4] * data[W_2][i]), data[Y][i]),
                        Sub(One, pRY_Y_0))))]

\* the four instrument functions of lines 68-71
Instrument1(w1, w2) == w1 * w2
Instrument2Plus2(w1, w2) == w1 * w2 + 2
Instrument2(w1, w2) == w1 * w2 + 1
Instrument3(w1, w2) == w1 * w2 * w2
Instrument4(w1, w2) == w1 * w2 * w2 + 1

\* shadowIpwFunctional_Y(params, W_1, W_2, R_Y, Y, data),
\* params = (alpha_0, alpha_1, gamma_0, gamma_1)
shadowIpwFunctional_Y(params, W_1, W_2, R_Y, Y, data) ==
    IF W_2 \notin DOMAIN data                      \* line 65, first lookup
    THEN KeyError({})
    ELSE IF Y \notin DOMAIN data                   \* line 66, after line 65
    THEN KeyError({"arithmetic", "sigmoid"})
    ELSE IF W_1 \notin DOMAIN data \/ R_Y \notin DOMAIN data     \* line 68
    THEN KeyError({"arithmetic", "sigmoid", "power", "division"})
    ELSE
    LET p1 == pRY_1(params, W_2, Y, data)
        n  == NRows(data)
        h1(i) == Instrument1(data[W_1][i], data[W_2][i])
        h2(i) == Instrument2(data[W_1][i], data[W_2][i])
        h3(i) == Instrument3(data[W_1][i], data[W_2][i])
        h4(i) == Instrument4(data[W_1][i], data[W_2][i])
        term(h, i) == Sub(Div(Mul(Fin(h), Fin(data[R_Y][i])), p1[i]), Fin(h))
        output1 == Average([i \in 1..n |-> term(h1(i), i)])
        output2 == Average([i \in 1..n |-> term(h2(i), i)])
        output3 == Average([i \in 1..n |-> term(h3(i), i)])
        output4 == Average([i \in 1..n |-> term(h4(i), i)])
    IN  Returned(<<output1, output2, output3, output4>>)

\* rootsPrediction_Y that predicts only for the rows whose Y is observed
rootsPrediction_Y_Filtering(roots, W_2, Y, data) ==
    IF W_2 \notin DOMAIN data
    THEN KeyError({})
    ELSE IF Y \notin DOMAIN data
    THEN KeyError({"arithmetic", "sigmoid"})
    ELSE
    LET all == [i \in 1..NRows(data) |->
            LET pRY_1_Y_0 == Expit(roots[1] + roots[2] * data[W_2][i])
            IN  Div(pRY_1_Y_0,
                    Add(pRY_1_Y_0,
                        Mul(PowInt(Fin(roots[3] + roots[4] * data[W_2][i]), data[Y][i]),
                            Sub(One, pRY_1_Y_0))))]
        idx == SelectSeq([i \in 1..NRows(data) |-> i], LAMBDA i : data[Y][i] # Sentinel)
    IN  Returned([k \in 1..Len(idx) |-> all[idx[k]]])

\* rootsPrediction_Y(roots, W_2, Y, data),
\* roots = (alpha_0, alpha_1, gamma_0, gamma_1)
rootsPrediction_Y(roots, W_2, Y, data) ==
    IF W_2 \notin DOMAIN data                      \* line 80, first lookup
    THEN KeyError({})
    ELSE IF Y \notin DOMAIN data                   \* line 81, after line 80
    THEN KeyError({"arithmetic", "sigmoid"})
    ELSE
    Returned([i \in 1..NRows(data) |->
        LET pRY_1_Y_0 == Expit(roots[1] + roots[2] * data[W_2][i])
        IN  Div(pRY_1_Y_0,
                Add(pRY_1_Y_0,
                    Mul(PowInt(Fin(roots[3] + roots[4] * data[W_2][i]), data[Y][i]),
                        Sub(One, pRY_1_Y_0))))])

\* data[data[col] == v]: the rows whose column col is v, in their order
Filter(data, col, v) ==
    LET idx == SelectSeq([i \in 1..NRows(data) |-> i], LAMBDA i : data[col][i] = v)
    IN  [c \in DOMAIN data |-> [k \in 1..Len(idx) |-> data[c][idx[k]]]]

(***************************************************************************)
(* State.                                                                  *)
(***************************************************************************)
VARIABLES
    rng,            \* the state of the global generator
    lastSeed,       \* <<the argument of the latest np.random.seed>>, or NoSeed
    fresh,          \* no draw was made since the latest np.random.seed
    ngen,           \* generateData calls so far (counted up to 2)
    first,          \* the first generateData call: its seed, size, freshness and result
    gen,            \* the latest generateData call: its seed, size, freshness and raw draws
    full_data,      \* the datasets returned by the latest generateData call
    partial_data,
    pc,             \* the position of __main__
    roots_RA,       \* the OptimizeResult of the exposure solve
    roots_RY,       \* the OptimizeResult of the outcome solve
    full_data_A_0,  \* the filtered frames of __main__
    full_data_A_1,
    partial_data_A,
    partial_data_Y,
    predictions_A,  \* what rootsPrediction_A / rootsPrediction_Y returned to __main__
    predictions_Y,
    call            \* the latest direct call of a residual function or predictor

genVars == <<rng, lastSeed, fresh, ngen, first, gen, full_data, partial_data>>
mainVars == <<pc, roots_RA, roots_RY, full_data_A_0, full_data_A_1,
              partial_data_A, partial_data_Y, predictions_A, predictions_Y>>
vars == <<genVars, mainVars, call>>

NoSeed == <<>>
EmptyFrame == DataFrame(<<>>, <<>>, <<>>, <<>>, <<>>, <<>>)
NoGen == [seed |-> NoSeed, size |-> 0, fresh |-> FALSE, raw |-> EmptyFrame]
NoFirst == [seed |-> NoSeed, size |-> 0, fresh |-> FALSE,
            full |-> EmptyFrame, partial |-> EmptyFrame]
NoResult == [x |-> <<>>, success |-> FALSE, fun |-> <<>>]
NoCall == [fn |-> "none", params |-> <<>>, data |-> EmptyFrame,
           err |-> "none", computed |-> {}, out |-> <<>>]

\* The state of the process once the module is imported: numpy has seeded
\* its generator from the operating system, nothing else has happened.
Init ==
    /\ rng \in RngStates
    /\ lastSeed = NoSeed
    /\ fresh = FALSE
    /\ ngen = 0
    /\ first = NoFirst
    /\ gen = NoGen
    /\ full_data = EmptyFrame
    /\ partial_data = EmptyFrame
    /\ pc = "start"
    /\ roots_RA = NoResult
    /\ roots_RY = NoResult
    /\ full_data_A_0 = EmptyFrame
    /\ full_data_A_1 = EmptyFrame
    /\ partial_data_A = EmptyFrame
    /\ partial_data_Y = EmptyFrame
    /\ predictions_A = <<>>
    /\ predictions_Y = <<>>
    /\ call = NoCall

(***************************************************************************)
(* The generator's operations.                                             *)
(***************************************************************************)
\* np.random.seed that mixes the seed into the current state
SeedMixing(seed) ==
    /\ rng' = 1 + ((rng + seed) % (RngModulus - 1))
    /\ lastSeed' = <<seed>>
    /\ fresh' = TRUE
    /\ UNCHANGED <<ngen, first, gen, full_data, partial_data>>

\* np.random.seed(seed)
Seed(seed) ==
    /\ rng' = SeedState(seed)
    /\ lastSeed' = <<seed>>
    /\ fresh' = TRUE
    /\ UNCHANGED <<ngen, first, gen, full_data, partial_data>>

\* full_data, partial_data = generateData(size)
Generate(size) ==
    LET r == GenerateData(size, rng)
    IN  /\ rng' = r.rng
        /\ fresh' = FALSE
        /\ full_data' = r.full
        /\ partial_data' = r.partial
        /\ gen' = [seed |-> lastSeed, size |-> size, fresh |-> fresh, raw |-> r.raw]
        /\ ngen' = IF ngen = 0 THEN 1 ELSE 2
        /\ first' = IF ngen = 0
                    THEN [seed |-> lastSeed, size |-> size, fresh |-> fresh,
                          full |-> r.full, partial |-> r.partial]
                    ELSE first
        /\ UNCHANGED lastSeed

\* A session that seeds the generator and calls generateData any number of
\* times, in any order.
GenSeed == \E seed \in Seeds : Seed(seed) /\ UNCHANGED <<mainVars, call>>
GenGenerate == \E size \in Sizes : Generate(size) /\ UNCHANGED <<mainVars, call>>
NextGen == GenSeed \/ GenGenerate
SpecGen == Init /\ [][NextGen]_vars

(***************************************************************************)
(* Parameter vectors.  An alpha is a log-odds in units of ln 2; -1100 and  *)
(* 100 are values at which expit is exactly 0.0 and 1.0.  (0, 1) and       *)
(* (0, 0, 1, 1) are the initial guesses of __main__.                       *)
(***************************************************************************)
ParamsA == {-1100, -1, 0, 1, 100} \X {-1, 0, 1, 2}
\* the outcome vectors the residual function is evaluated at, by the
\* solver or directly (a nonzero
\* alpha_1 makes the averaged weights of rows with W2 = -12 and W2 = 12
\* exceed 32-bit integers)
ParamsY == {-1100, 0, 1, 100} \X {0} \X {0, 1, 2} \X {0, 1}
\* the outcome vectors the predictor is called with directly
RootsY == {-1100, 0, 1, 100} \X {0, 1} \X {0, 1, 2} \X {0, 1}

(***************************************************************************)
(* __main__, lines 113-147.                                                *)
(***************************************************************************)
\* line 114: np.random.seed(10); the model lets the seed range over Seeds
MainSeed ==
    /\ pc = "start"
    /\ \E seed \in Seeds : Seed(seed)
    /\ pc' = "generate"
    /\ UNCHANGED <<roots_RA, roots_RY, full_data_A_0, full_data_A_1,
                   partial_data_A, partial_data_Y, predictions_A, predictions_Y, call>>

\* line 116: full_data, partial_data = generateData(verbose=True)
MainGenerate ==
    /\ pc = "generate"
    /\ \E size \in Sizes : Generate(size)
    /\ pc' = "solveA"
    /\ UNCHANGED <<roots_RA, roots_RY, full_data_A_0, full_data_A_1,
                   partial_data_A, partial_data_Y, predictions_A, predictions_Y, call>>

\* lines 118-119: roots_RA = optimize.root(shadowIpwFunctional_A, [0.0, 1.0], ...).
\* scipy's solver is not part of the repository: it returns an
\* OptimizeResult whose x is some vector, whose fun is the residual at x
\* and whose success flag says whether it converged; __main__ stores it
\* whatever the flag is.
SolveA ==
    /\ pc = "solveA"
    /\ \E x \in ParamsA, success \in BOOLEAN :
          roots_RA' = [x |-> x, success |-> success,
                       fun |-> shadowIpwFunctional_A(x, "W1", "R_A", "A",
                                                     partial_data).out]
    /\ pc' = "filterA"
    /\ UNCHANGED <<genVars, roots_RY, full_data_A_0, full_data_A_1,
                   partial_data_A, partial_data_Y, predictions_A, predictions_Y, call>>

\* lines 121-130: the three row filters
FilterA ==
    /\ pc = "filterA"
    /\ full_data_A_0' = Filter(full_data, "A", 0)
    /\ full_data_A_1' = Filter(full_data, "A", 1)
    /\ partial_data_A' = Filter(partial_data, "R_A", 1)
    /\ pc' = "predictA"
    /\ UNCHANGED <<genVars, roots_RA, roots_RY, partial_data_Y,
                   predictions_A, predictions_Y, call>>

\* lines 132-133: print(rootsPrediction_A(roots_RA.x, "A", partial_data_A))
PredictA ==
    /\ pc = "predictA"
    /\ predictions_A' = rootsPrediction_A(roots_RA.x, "A", partial_data_A).out
    /\ pc' = "solveY"
    /\ UNCHANGED <<genVars, roots_RA, roots_RY, full_data_A_0, full_data_A_1,
                   partial_data_A, partial_data_Y, predictions_Y, call>>

\* lines 137-138: roots_RY = optimize.root(shadowIpwFunctional_Y, [0.0, 0.0, 1.0, 1.0], ...)
SolveY ==
    /\ pc = "solveY"
    /\ \E x \in ParamsY, success \in BOOLEAN :
          roots_RY' = [x |-> x, success |-> success,
                       fun |-> shadowIpwFunctional_Y(x, "W1", "W2", "R_Y", "Y",
                                                     partial_data).out]
    /\ pc' = "filterY"
    /\ UNCHANGED <<genVars, roots_RA, full_data_A_0, full_data_A_1,
                   partial_data_A, partial_data_Y, predictions_A, predictions_Y, call>>

\* lines 140-143: the benchmark regression is fitted on full_data (it reads
\* the frame and keeps its own model), then the rows with R_Y = 1 are kept
FilterY ==
    /\ pc = "filterY"
    /\ partial_data_Y' = Filter(partial_data, "R_Y", 1)
    /\ pc' = "predictY"
    /\ UNCHANGED <<genVars, roots_RA, roots_RY, full_data_A_0, full_data_A_1,
                   partial_data_A, predictions_A, predictions_Y, call>>

\* lines 145-147: print(rootsPrediction_Y(roots_RY.x, "W2", "Y", partial_data_Y))
PredictY ==
    /\ pc = "predictY"
    /\ predictions_Y' = rootsPrediction_Y(roots_RY.x, "W2", "Y", partial_data_Y).out
    /\ pc' = "done"
    /\ UNCHANGED <<genVars, roots_RA, roots_RY, full_data_A_0, full_data_A_1,
                   partial_data_A, partial_data_Y, predictions_A, call>>

Next ==
    \/ MainSeed
    \/ MainGenerate
    \/ SolveA
    \/ FilterA
    \/ PredictA
    \/ SolveY
    \/ FilterY
    \/ PredictY

Spec == Init /\ [][Next]_vars

(***************************************************************************)
(* Direct calls of the four functions, as the solver and any other caller  *)
(* make them: on the partial dataset generateData returned, on its         *)
(* observed rows, or on such a frame with one column dropped.  The         *)
(* functions keep no state, so a behaviour follows one call.               *)
(***************************************************************************)
Columns == {"A", "Y", "W1", "W2", "R_A", "R_Y"}
ColumnSets == {Columns} \cup {Columns \ {c} : c \in Columns}
Restrict(data, cols) == [c \in cols |-> data[c]]

Record(fn, params, data, r) ==
    call' = [fn |-> fn, params |-> params, data |-> data,
             err |-> r.err, computed |-> r.computed, out |-> r.out]

FnGenerate ==
    /\ ngen = 0
    /\ \E size \in Sizes : Generate(size)
    /\ UNCHANGED <<mainVars, call>>

CallShadowIpwFunctional_A ==
    /\ ngen > 0 /\ call = NoCall
    /\ \E params \in ParamsA, cols \in ColumnSets :
          LET data == Restrict(partial_data, cols)
          IN  Record("shadowIpwFunctional_A", params, data,
                     shadowIpwFunctional_A(params, "W1", "R_A", "A", data))
    /\ UNCHANGED <<genVars, mainVars>>

CallRootsPrediction_A ==
    /\ ngen > 0 /\ call = NoCall
    /\ \E roots \in ParamsA, cols \in ColumnSets,
          frame \in {partial_data, Filter(partial_data, "R_A", 1)} :
          LET data == Restrict(frame, cols)
          IN  Record("rootsPrediction_A", roots, data,
                     rootsPrediction_A(roots, "A", data))
    /\ UNCHANGED <<genVars, mainVars>>

CallShadowIpwFunctional_Y ==
    /\ ngen > 0 /\ call = NoCall
    /\ \E params \in ParamsY, cols \in ColumnSets :
          LET data == Restrict(partial_data, cols)
          IN  Record("shadowIpwFunctional_Y", params, data,
                     shadowIpwFunctional_Y(params, "W1", "W2", "R_Y", "Y", data))
    /\ UNCHANGED <<genVars, mainVars>>

CallRootsPrediction_Y ==
    /\ ngen > 0 /\ call = NoCall
    /\ \E roots \in RootsY, cols \in ColumnSets,
          frame \in {partial_data, Filter(partial_data, "R_Y", 1)} :
          LET data == Restrict(frame, cols)
          IN  Record("rootsPrediction_Y", roots, data,
                     rootsPrediction_Y(roots, "W2", "Y", data))
    /\ UNCHANGED <<genVars, mainVars>>

NextFn ==
    \/ FnGenerate
    \/ CallShadowIpwFunctional_A
    \/ CallRootsPrediction_A
    \/ CallShadowIpwFunctional_Y
    \/ CallRootsPrediction_Y

SpecFn == Init /\ [][NextFn]_vars

(***************************************************************************)
(* Properties.                                                             *)
(***************************************************************************)
Bit == {0, 1}
Generated == ngen > 0
Rows == 1..NRows(partial_data)

\* C1: masking consistency of generateData.  In every row of the partial
\* dataset R_A = 1 iff A is the full dataset's A (0 or 1) and R_A = 0 iff A
\* is the sentinel, likewise for Y and R_Y; W1, W2, R_A and R_Y are the
\* same, row by row, in the full and the partial dataset.
C1_MaskingConsistency ==
    /\ NRows(full_data) = NRows(partial_data)
    /\ \A i \in Rows :
        /\ full_data.A[i] \in Bit /\ full_data.Y[i] \in Bit
        /\ partial_data.R_A[i] \in Bit /\ partial_data.R_Y[i] \in Bit
        /\ partial_data.R_A[i] = 1 <=> partial_data.A[i] = full_data.A[i]
        /\ partial_data.R_A[i] = 0 <=> partial_data.A[i] = Sentinel
        /\ partial_data.R_Y[i] = 1 <=> partial_data.Y[i] = full_data.Y[i]
        /\ partial_data.R_Y[i] = 0 <=> partial_data.Y[i] = Sentinel
        /\ partial_data.W1[i] = full_data.W1[i]
        /\ partial_data.W2[i] = full_data.W2[i]
        /\ partial_data.R_A[i] = full_data.R_A[i]
        /\ partial_data.R_Y[i] = full_data.R_Y[i]

\* a dataset with a masked and an observed A and a masked and an observed Y
C1_Witness ==
    /\ Generated
    /\ \E i, j \in Rows : partial_data.R_A[i] = 0 /\ partial_data.R_A[j] = 1
    /\ \E i, j \in Rows : partial_data.R_Y[i] = 0 /\ partial_data.R_Y[j] = 1

SameSeedAndSize == gen.seed # NoSeed /\ first.seed = gen.seed /\ first.size = gen.size
SameDatasets == first.full = full_data /\ first.partial = partial_data

C9_DatasetsImmutable ==
    /\ [][(full_data' # full_data \/ partial_data' # partial_data)
            => pc = "generate"]_vars
    /\ [](Generated =>
            /\ full_data.A = gen.raw.A /\ full_data.Y = gen.raw.Y
            /\ \A i \in Rows : full_data.A[i] \in Bit /\ full_data.Y[i] \in Bit)

\* the run has ended on a dataset with a sentinel in A and one in Y
C9_Witness ==
    /\ pc = "done"
    /\ \E i \in Rows : partial_data.A[i] = Sentinel /\ full_data.A[i] \in Bit
    /\ \E i \in Rows : partial_data.Y[i] = Sentinel /\ full_data.Y[i] \in Bit
    /\ NRows(partial_data_A) < NRows(partial_data)

\* C2: non-convergence is surfaced.  A prediction is computed only from a
\* solver result whose success flag is true.
C2_NonConvergenceSurfaced ==
    /\ pc \in {"solveY", "filterY", "predictY", "done"} => roots_RA.success
    /\ pc = "done" => roots_RY.success

\* C6: a degenerate final root is rejected.  When every row of the dataset
\* has R_A = 0 (resp. R_Y = 0), the solve returns no root.
C6_DegenerateRootRejected ==
    /\ (Generated /\ \A i \in Rows : partial_data.R_A[i] = 0)
          => roots_RA = NoResult
    /\ (Generated /\ \A i \in Rows : partial_data.R_Y[i] = 0)
          => roots_RY = NoResult

CallRows == 1..NRows(call.data)
ReturnedBy(fn) == call.fn = fn /\ call.err = "none"
InUnit(x) == Less(Zero, x) /\ Less(x, One)

\* the frame of the call with every sentinel of column c replaced by v
Unmasked(data, c, v) ==
    [d \in DOMAIN data |->
        IF d = c THEN [i \in 1..NRows(data) |->
                          IF data[c][i] = Sentinel THEN v ELSE data[c][i]]
        ELSE data[d]]

\* C4: sentinel neutralisation in both residual functions.  For every
\* parameter vector, a row with R_A = 0 (resp. R_Y = 0) contributes exactly
\* 0 through its h * R / p1 term, every residual entry is a finite number,
\* and the residuals are those of the same frame with any valid value in
\* place of the sentinel.  Stated here for the parameter vectors whose p0
\* lies in (0, 1) in every row, which the claim includes.
C4_SentinelNeutralised ==
    /\ (ReturnedBy("shadowIpwFunctional_A") /\ InUnit(Expit(call.params[1]))) =>
        /\ \A i \in CallRows : call.data.R_A[i] = 0 =>
              \A h \in {call.data.W1[i], call.data.W1[i] * call.data.W1[i]} :
                 Div(Mul(Fin(h), Fin(call.data.R_A[i])),
                     pRA_1(call.params, "A", call.data)[i]) = Zero
        /\ \A k \in 1..2 : IsFinite(call.out[k])
        /\ \A v \in Bit :
              call.out = shadowIpwFunctional_A(call.params, "W1", "R_A", "A",
                                               Unmasked(call.data, "A", v)).out
    /\ (/\ ReturnedBy("shadowIpwFunctional_Y")
        /\ \A i \in CallRows :
              InUnit(Expit(call.params[1] + call.params[2] * call.data.W2[i]))) =>
        /\ \A i \in CallRows : call.data.R_Y[i] = 0 =>
              \A h \in {Instrument1(call.data.W1[i], call.data.W2[i]),
                        Instrument2(call.data.W1[i], call.data.W2[i]),
                        Instrument3(call.data.W1[i], call.data.W2[i]),
                        Instrument4(call.data.W1[i], call.data.W2[i])} :
                 Div(Mul(Fin(h), Fin(call.data.R_Y[i])),
                     pRY_1(call.params, "W2", "Y", call.data)[i]) = Zero
        /\ \A k \in 1..4 : IsFinite(call.out[k])
        /\ \A v \in Bit :
              call.out = shadowIpwFunctional_Y(call.params, "W1", "W2", "R_Y", "Y",
                                               Unmasked(call.data, "Y", v)).out

\* C7: masking/shape errors precede computation.  A call that ends in
\* KeyError for a missing column has computed no numeric step.
C7_ErrorsPrecedeComputation ==
    call.err = "KeyError" => call.computed = {}

C8_PredictorIsResidualP1 ==
    /\ ReturnedBy("rootsPrediction_A") =>
          /\ Len(call.out) = NRows(call.data)
          /\ \A i \in CallRows : call.out[i] = pRA_1(call.params, "A", call.data)[i]
    /\ ReturnedBy("rootsPrediction_Y") =>
          /\ Len(call.out) = NRows(call.data)
          /\ \A i \in CallRows :
                call.out[i] = pRY_1(call.params, "W2", "Y", call.data)[i]

\* a prediction on a frame with a sentinel row and an observed row whose
\* probabilities differ
C8_Witness ==
    /\ ReturnedBy("rootsPrediction_Y")
    /\ \E i, j \in CallRows :
          /\ call.data.Y[i] = Sentinel /\ call.data.Y[j] # Sentinel
          /\ call.out[i] # call.out[j]
          /\ IsFinite(call.out[i]) /\ IsFinite(call.out[j])

\* C10: the four outcome residuals are linearly dependent.  Wherever the
\* four residuals are finite numbers, output2 - output1 = output4 - output3
\* = average(R_Y / p1 - 1).
C10_ResidualsDependent ==
    (ReturnedBy("shadowIpwFunctional_Y") /\ \A k \in 1..4 : IsFinite(call.out[k])) =>
        LET p1 == pRY_1(call.params, "W2", "Y", call.data)
            d  == Average([i \in CallRows |->
                     Sub(Div(Fin(call.data.R_Y[i]), p1[i]), One)])
        IN  /\ Sub(call.out[2], call.out[1]) = d
            /\ Sub(call.out[4], call.out[3]) = d

\* finite residuals of a frame with a sentinel row, with a difference
\* other than 0
C10_Witness ==
    /\ ReturnedBy("shadowIpwFunctional_Y")
    /\ \A k \in 1..4 : IsFinite(call.out[k])
    /\ Sub(call.out[2], call.out[1]) # Zero
    /\ call.out[1] # call.out[3]
    /\ \E i \in CallRows : call.data.Y[i] = Sentinel

=============================================================================
